---------------------------- MODULE Spec2Model ----------------------------
(***************************************************************************)
(* Model of extract_bbox_metadata.py: metadata extraction (text lines,     *)
(* embedded images, table signal) for a bounding box of one PDF page.      *)
(*                                                                         *)
(* Coordinates are integers.  Where fractional parts matter (the line key  *)
(* top.round(0)) a coordinate counts tenths of a PDF unit, so 100.2 is     *)
(* 1002; clamping and overlap are indifferent to the unit.                 *)
(* A Python tuple (x0, top, x1, bottom) is the TLA+ tuple                  *)
(* <<x0, top, x1, bottom>>; a dict is a record; a list is a sequence.      *)
(***************************************************************************)
EXTENDS Integers, Sequences, FiniteSets, TLC

VARIABLES
    pdf,          \* the document stored at pdf_path: the sequence of its pages
    entry,        \* the function the caller invokes
    args,         \* the arguments of that call
    pc,           \* position of the call
    handles,      \* number of document handles currently open
    text_part,    \* return value of extract_bbox_text_metadata
    image_part,   \* return value of extract_bbox_image_metadata
    table_part,   \* return value of extract_bbox_table_signal
    result,       \* value returned to the caller
    raised        \* exception propagating to the caller, "none" if none

vars == <<pdf, entry, args, pc, handles, text_part, image_part, table_part,
          result, raised>>

-----------------------------------------------------------------------------
(* Bounds of the model *)

MaxCoord == 3      \* page sides of the geometric checks range over 1..MaxCoord
MaxWords == 2      \* words on a page of the text checks
MaxImages == 2     \* images on a page of the image checks
MaxPages == 2      \* pages of a document
MaxLines == 10     \* vector lines on a page
MaxRects == 6      \* vector rectangles on a page
MaxCurves == 1     \* vector curves on a page

-----------------------------------------------------------------------------
(* Python builtins *)

None == [none |-> TRUE]

Max(a, b) == IF b > a THEN b ELSE a

Min(a, b) == IF b < a THEN b ELSE a

\* pages[page_number] on a Python list: indices -len..len-1 are valid,
\* a negative index counts from the end.
InListRange(seq, i) == i >= -Len(seq) /\ i < Len(seq)

ListGet(seq, i) == IF i >= 0 THEN seq[i + 1] ELSE seq[Len(seq) + i + 1]

-----------------------------------------------------------------------------
(* clamp_bbox_to_page *)

ClampNoSwap(bbox, page) ==
    <<Max(0, Min(bbox[1], page.width)), Max(0, Min(bbox[2], page.height)),
      Max(0, Min(bbox[3], page.width)), Max(0, Min(bbox[4], page.height))>>

clamp_bbox_to_page(bbox, page) ==
    LET x0 == Max(0, Min(bbox[1], page.width))
        x1 == Max(0, Min(bbox[3], page.width))
        top == Max(0, Min(bbox[2], page.height))
        bottom == Max(0, Min(bbox[4], page.height))
    IN  <<IF x1 < x0 THEN x1 ELSE x0,
          IF bottom < top THEN bottom ELSE top,
          IF x1 < x0 THEN x0 ELSE x1,
          IF bottom < top THEN top ELSE bottom>>

-----------------------------------------------------------------------------
(* bbox_overlap *)

OverlapTouching(a, b) ==
    /\ Max(0, Min(a[3], b[3]) - Max(a[1], b[1]) + 1) > 0
    /\ Max(0, Min(a[4], b[4]) - Max(a[2], b[2]) + 1) > 0

bbox_overlap(a, b) ==
    LET inter_w == Max(0, Min(a[3], b[3]) - Max(a[1], b[1]))
        inter_h == Max(0, Min(a[4], b[4]) - Max(a[2], b[2]))
    IN  inter_w > 0 /\ inter_h > 0

-----------------------------------------------------------------------------
(* The pdfplumber collaborator *)

Raise(exc) == [raised |-> exc, ret |-> None]

Return(value) == [raised |-> "none", ret |-> value]

\* pdfplumber.open(pdf_path) hands out one more open document handle.
pdfplumber_open(h) == h + 1

PdfExitOnSuccessOnly(h, exc) == IF exc = "none" THEN h - 1 ELSE h

\* Leaving the with block closes the document, whether the block returned
\* or raised.
pdf_exit(h, exc) == h - 1

Area(bbox) == (bbox[3] - bbox[1]) * (bbox[4] - bbox[2])

\* page.crop(bbox) rejects a bounding box of zero area (ValueError); the
\* clamped box always lies within the page.
CropRaises(bbox) == Area(bbox) = 0

\* The words cropped.extract_words(...) yields: the words of the page that
\* lie in the cropped region.
extract_words(page, bbox) ==
    SelectSeq(page.words,
              LAMBDA w : bbox_overlap(bbox, <<w.x0, w.top, w.x1, w.bottom>>))

-----------------------------------------------------------------------------
(* Line reconstruction: pandas and collections.Counter *)

\* Series.round(0) on a coordinate counted in tenths: to the nearest
\* integer, a fraction of exactly one half to the even neighbour.
RoundDown(t) == t \div 10

RoundToTens(t) == ((t + 50) \div 100) * 10

round0(t) ==
    LET q == t \div 10
        r == t % 10
    IN  IF r < 5 THEN q
        ELSE IF r > 5 THEN q + 1
        ELSE IF q % 2 = 0 THEN q ELSE q + 1

\* wdf["line_id"] = wdf["top"].round(0): every row gets the column line_id.
with_line_id(words) ==
    [i \in DOMAIN words |-> words[i] @@ [line_id |-> round0(words[i].top)]]

\* Row a sorts before row b by the columns named in by, the first deciding.
RowLess(a, b, by) ==
    \E i \in DOMAIN by :
        /\ a[by[i]] < b[by[i]]
        /\ \A j \in 1..(i - 1) : a[by[j]] = b[by[j]]

\* Stable insertion of row r into the sorted frame s.
InsertSorted(s, r, by) ==
    LET p == CHOOSE p \in 1..(Len(s) + 1) :
                 /\ \A j \in 1..(p - 1) : ~RowLess(r, s[j], by)
                 /\ p = Len(s) + 1 \/ RowLess(r, s[p], by)
    IN  SubSeq(s, 1, p - 1) \o <<r>> \o SubSeq(s, p, Len(s))

\* DataFrame.sort_values(by): rows that compare equal keep their order.
sort_values(frame, by) ==
    LET f[i \in 0..Len(frame)] ==
            IF i = 0 THEN <<>> ELSE InsertSorted(f[i - 1], frame[i], by)
    IN  f[Len(frame)]

\* The ascending sequence of the integers of S (the group keys of groupby).
SortedKeys(S) ==
    LET f[i \in 0..Cardinality(S)] ==
            IF i = 0 THEN <<>>
            ELSE LET rest == S \ {f[i - 1][j] : j \in 1..(i - 1)}
                 IN  Append(f[i - 1],
                            CHOOSE k \in rest : \A m \in rest : k <= m)
    IN  f[Cardinality(S)]

\* " ".join(x)
Join(xs) ==
    LET f[i \in 0..Len(xs)] ==
            IF i = 0 THEN ""
            ELSE IF i = 1 THEN xs[1]
            ELSE f[i - 1] \o " " \o xs[i]
    IN  f[Len(xs)]

\* Counter(x): the distinct values of x in the order first seen ...
CounterKeys(xs) ==
    LET f[i \in 0..Len(xs)] ==
            IF i = 0 THEN <<>>
            ELSE IF \E j \in 1..(i - 1) : xs[j] = xs[i] THEN f[i - 1]
            ELSE Append(f[i - 1], xs[i])
    IN  f[Len(xs)]

\* ... each with the number of its occurrences.
CounterCount(xs, v) == Cardinality({i \in DOMAIN xs : xs[i] = v})

MostCommonLastSeen(xs) ==
    LET keys == CounterKeys(xs)
        best == CHOOSE i \in DOMAIN keys :
                    /\ \A j \in DOMAIN keys :
                           CounterCount(xs, keys[j]) <= CounterCount(xs, keys[i])
                    /\ \A j \in DOMAIN keys : j > i =>
                           CounterCount(xs, keys[j]) < CounterCount(xs, keys[i])
    IN  keys[best]

\* Counter(x).most_common(1)[0][0]: the first key, in the order first seen,
\* whose count is the largest.
most_common(xs) ==
    LET keys == CounterKeys(xs)
        best == CHOOSE i \in DOMAIN keys :
                    /\ \A j \in DOMAIN keys :
                           CounterCount(xs, keys[j]) <= CounterCount(xs, keys[i])
                    /\ \A j \in DOMAIN keys : j < i =>
                           CounterCount(xs, keys[j]) < CounterCount(xs, keys[i])
    IN  keys[best]

SeqMin(xs) == CHOOSE v \in {xs[i] : i \in DOMAIN xs} :
                  \A i \in DOMAIN xs : v <= xs[i]

SeqMax(xs) == CHOOSE v \in {xs[i] : i \in DOMAIN xs} :
                  \A i \in DOMAIN xs : v >= xs[i]

Column(rows, col) == [i \in DOMAIN rows |-> rows[i][col]]

\* .agg({...}) on one group of rows
agg(rows) ==
    [text     |-> Join(Column(rows, "text")),
     fontname |-> most_common(Column(rows, "fontname")),
     size     |-> most_common(Column(rows, "size")),
     x0       |-> SeqMin(Column(rows, "x0")),
     top      |-> SeqMin(Column(rows, "top")),
     x1       |-> SeqMax(Column(rows, "x1")),
     bottom   |-> SeqMax(Column(rows, "bottom"))]

\* .groupby("line_id").agg(...).reset_index(drop=True): one row per key, in
\* ascending key order, the rows of a group in the order of the sorted frame.
groupby_agg(sorted) ==
    LET keys == SortedKeys({sorted[i].line_id : i \in DOMAIN sorted})
    IN  [k \in DOMAIN keys |->
            agg(SelectSeq(sorted, LAMBDA r : r.line_id = keys[k]))]

\* lines_df of a non-empty word list, as lines_df.to_dict(orient="records")
lines_df(words) ==
    sort_values(
        groupby_agg(sort_values(with_line_id(words), <<"line_id", "x0">>)),
        <<"top">>)

-----------------------------------------------------------------------------
(* extract_bbox_text_metadata: the body of its with block *)

\* fault: the collaborator fails to parse the page content (PDFSyntaxError).
text_body(doc, page_number, bbox, fault) ==
    IF ~InListRange(doc, page_number) THEN Raise("IndexError")
    ELSE LET page == ListGet(doc, page_number)
             box == clamp_bbox_to_page(bbox, page)
         IN  IF CropRaises(box) THEN Raise("ValueError")
             ELSE IF fault THEN Raise("PDFSyntaxError")
             ELSE LET words == extract_words(page, box)
                  IN  IF words = <<>>
                      THEN Return([page_number |-> page_number,
                                   bbox |-> box,
                                   lines |-> <<>>,
                                   message |-> "No text found inside bbox"])
                      ELSE Return([page_number |-> page_number,
                                   bbox |-> box,
                                   lines |-> lines_df(words)])

-----------------------------------------------------------------------------
(* extract_bbox_image_metadata: the body of its with block *)

ImageRecord(i, img) ==
    [image_id |-> i,
     image_bbox |-> <<img.x0, img.top, img.x1, img.bottom>>,
     width |-> img.width,
     height |-> img.height,
     name |-> img.name,
     srcsize |-> img.srcsize]

ImageResultsRenumbered(images, bbox) ==
    LET f[n \in 0..Len(images)] ==
            IF n = 0 THEN <<>>
            ELSE LET img == images[n]
                 IN  IF bbox_overlap(bbox, <<img.x0, img.top, img.x1, img.bottom>>)
                     THEN Append(f[n - 1], ImageRecord(Len(f[n - 1]), img))
                     ELSE f[n - 1]
    IN  f[Len(images)]

\* The loop over enumerate(page.images): f[n] is results after n images.
image_results(images, bbox) ==
    LET f[n \in 0..Len(images)] ==
            IF n = 0 THEN <<>>
            ELSE LET img == images[n]
                 IN  IF bbox_overlap(bbox, <<img.x0, img.top, img.x1, img.bottom>>)
                     THEN Append(f[n - 1], ImageRecord(n - 1, img))
                     ELSE f[n - 1]
    IN  f[Len(images)]

ImageReturnCountsPage(page_number, bbox, images) ==
    [page_number |-> page_number,
     bbox |-> bbox,
     image_count |-> Len(images),
     images |-> image_results(images, bbox)]

image_return(page_number, bbox, images) ==
    LET results == image_results(images, bbox)
    IN  [page_number |-> page_number,
         bbox |-> bbox,
         image_count |-> Len(results),
         images |-> results]

image_body(doc, page_number, bbox, fault) ==
    IF ~InListRange(doc, page_number) THEN Raise("IndexError")
    ELSE LET page == ListGet(doc, page_number)
             box == clamp_bbox_to_page(bbox, page)
         IN  IF fault THEN Raise("PDFSyntaxError")
             ELSE Return(image_return(page_number, box, page.images))

-----------------------------------------------------------------------------
(* extract_bbox_table_signal: the body of its with block *)

TableThreshold == 15

TableSignalInclusive(page_number, bbox, lines, rects, curves) ==
    [page_number |-> page_number,
     bbox |-> bbox,
     lines_count |-> lines,
     rects_count |-> rects,
     curves_count |-> curves,
     likely_table |-> (lines + rects) >= TableThreshold]

table_signal(page_number, bbox, lines, rects, curves) ==
    [page_number |-> page_number,
     bbox |-> bbox,
     lines_count |-> lines,
     rects_count |-> rects,
     curves_count |-> curves,
     likely_table |-> (lines + rects) > TableThreshold]

\* The vector primitives of a modelled page span the page, so the crop of
\* a region of positive area retains each of them.
table_body(doc, page_number, bbox, fault) ==
    IF ~InListRange(doc, page_number) THEN Raise("IndexError")
    ELSE LET page == ListGet(doc, page_number)
             box == clamp_bbox_to_page(bbox, page)
         IN  IF CropRaises(box) THEN Raise("ValueError")
             ELSE IF fault THEN Raise("PDFSyntaxError")
             ELSE Return(table_signal(page_number, box,
                                      page.lines, page.rects, page.curves))

-----------------------------------------------------------------------------
(* extract_bbox_metadata: the returned report *)

report(pdf_path, page_number, text, image, table) ==
    [pdf_path |-> pdf_path,
     page_number |-> page_number,
     bbox |-> text.bbox,
     text |-> text.lines,
     text_line_count |-> Len(text.lines),
     images |-> image.images,
     image_count |-> image.image_count,
     table_signal |-> table]

-----------------------------------------------------------------------------
(* Inputs *)

Page(w, h, words, images, lines, rects, curves) ==
    [width |-> w, height |-> h, words |-> words, images |-> images,
     lines |-> lines, rects |-> rects, curves |-> curves]

\* Inputs of the geometric functions: coordinates from just outside the
\* page to just beyond it, in any corner order.
Coords == (-1)..(MaxCoord + 1)

RawBoxes == {<<x0, top, x1, bottom>> :
                x0 \in Coords, top \in Coords, x1 \in Coords, bottom \in Coords}

PageSides == 1..MaxCoord

Rects == {r \in (0..MaxCoord) \X (0..MaxCoord) \X (0..MaxCoord) \X (0..MaxCoord) :
             r[1] <= r[3] /\ r[2] <= r[4]}

\* Pages of the text, table and report checks, in tenths of a unit.
Sheet == [width |-> 6000, height |-> 8000]

FullSheet == <<0, 0, Sheet.width, Sheet.height>>

Word(text, x0, top, style) ==
    [text |-> text, x0 |-> x0, top |-> top, x1 |-> x0 + 400,
     bottom |-> top + 120, fontname |-> style[1], size |-> style[2]]

WordTexts == <<"Hello", "World", "Next", "More", "Last">>

WordTops == {1002, 1006, 1015, 1025}

WordX0s == {100, 600}

WordStyles == {<<"Arial", 10>>, <<"Times", 12>>, <<"Times", 10>>}

WordChoices == [x0 : WordX0s, top : WordTops, style : WordStyles]

\* The words of the line grouping scenario: Hello (top 100.2, x0 10),
\* World (top 100.6, x0 60), Next (top 130.0, x0 10).
ScenarioWords ==
    <<Word("Hello", 100, 1002, <<"Arial", 10>>),
      Word("World", 600, 1006, <<"Arial", 10>>),
      Word("Next", 100, 1300, <<"Arial", 10>>)>>

WordLists ==
    {ScenarioWords} \cup
    UNION {{[i \in 1..n |-> Word(WordTexts[i], c[i].x0, c[i].top, c[i].style)] :
               c \in [1..n -> WordChoices]} : n \in 0..MaxWords}

\* Request boxes on a sheet: the whole sheet, its upper part (the words above
\* top 120.0), the same in reverse corner order and beyond the sheet, and a
\* box of zero area.
SheetBoxes == {FullSheet,
               <<0, 0, 6000, 1200>>,
               <<7000, 1200, -50, -50>>,
               <<100, 100, 100, 900>>}

Image(bbox, name) ==
    [x0 |-> bbox[1], top |-> bbox[2], x1 |-> bbox[3], bottom |-> bbox[4],
     width |-> bbox[3] - bbox[1], height |-> bbox[4] - bbox[2],
     name |-> name, srcsize |-> <<bbox[3] - bbox[1], bbox[4] - bbox[2]>>]

\* Pages of the image checks, in units: a 100 x 100 page.
ImagePool == {Image(<<0, 0, 5, 5>>, "Im0"),
              Image(<<50, 50, 60, 60>>, "Im1"),
              Image(<<10, 0, 20, 10>>, "Im2"),
              Image(<<5, 5, 55, 55>>, "Im3")}

ImageLists == UNION {[1..n -> ImagePool] : n \in 0..MaxImages}

ImageBoxes == {<<0, 0, 10, 10>>,
               <<0, 0, 100, 100>>,
               <<60, 60, 40, 40>>,
               <<-5, -5, 50, 50>>,
               <<10, 10, 10, 20>>}

\* Pages of the report checks.
SamplePages ==
    {Page(Sheet.width, Sheet.height, ScenarioWords,
          <<Image(<<0, 0, 500, 500>>, "Im0"),
            Image(<<5000, 5000, 6000, 6000>>, "Im1")>>, 10, 6, 0),
     Page(Sheet.width, Sheet.height, <<>>, <<>>, 10, 5, 1),
     Page(Sheet.width, Sheet.height,
          <<Word("Hello", 600, 1015, <<"Times", 12>>),
            Word("World", 100, 1025, <<"Arial", 10>>)>>,
          <<Image(<<0, 5000, 6000, 6000>>, "Im0"),
            Image(<<0, 1000, 500, 1500>>, "Im1"),
            Image(<<0, 1100, 6000, 1300>>, "Im2")>>, 0, 0, 0)}

Documents == UNION {[1..n -> SamplePages] : n \in 1..MaxPages}

PageNumbers == (-(MaxPages + 1))..MaxPages

-----------------------------------------------------------------------------
(* Initial states: a document on disk and a caller about to call *)

InitCall ==
    /\ pc = "call"
    /\ args = None
    /\ handles = 0
    /\ text_part = None
    /\ image_part = None
    /\ table_part = None
    /\ result = None
    /\ raised = "none"

Init ==
    /\ entry = "extract_bbox_metadata"
    /\ pdf \in Documents
    /\ InitCall

InitClamp ==
    /\ entry = "clamp_bbox_to_page"
    /\ pdf \in {<<Page(w, h, <<>>, <<>>, 0, 0, 0)>> : w \in PageSides, h \in PageSides}
    /\ InitCall

InitOverlap ==
    /\ entry = "bbox_overlap"
    /\ pdf = <<>>
    /\ InitCall

InitText ==
    /\ entry = "extract_bbox_text_metadata"
    /\ pdf \in {<<Page(Sheet.width, Sheet.height, ws, <<>>, 0, 0, 0)>> : ws \in WordLists}
    /\ InitCall

InitImage ==
    /\ entry = "extract_bbox_image_metadata"
    /\ pdf \in {<<Page(100, 100, <<>>, imgs, 0, 0, 0)>> : imgs \in ImageLists}
    /\ InitCall

InitTable ==
    /\ entry = "extract_bbox_table_signal"
    /\ pdf \in {<<Page(Sheet.width, Sheet.height, <<>>, <<>>, l, r, c)>> :
                   l \in 0..MaxLines, r \in 0..MaxRects, c \in 0..MaxCurves}
    /\ InitCall

-----------------------------------------------------------------------------
(* The pure functions, called directly *)

CallClamp ==
    /\ pc = "call" /\ entry = "clamp_bbox_to_page"
    /\ \E b \in RawBoxes :
          /\ args' = [bbox |-> b, page |-> pdf[1]]
          /\ result' = clamp_bbox_to_page(b, pdf[1])
    /\ pc' = "done"
    /\ UNCHANGED <<pdf, entry, handles, text_part, image_part, table_part, raised>>

CallOverlap ==
    /\ pc = "call" /\ entry = "bbox_overlap"
    /\ \E a \in Rects, b \in Rects :
          /\ args' = [a |-> a, b |-> b]
          /\ result' = bbox_overlap(a, b)
    /\ pc' = "done"
    /\ UNCHANGED <<pdf, entry, handles, text_part, image_part, table_part, raised>>

-----------------------------------------------------------------------------
(* The functions that open the document *)

Request(page_number, bbox) ==
    [pdf_path |-> "doc.pdf", page_number |-> page_number, bbox |-> bbox]

\* A caller calls one of the four functions that take (pdf_path, page_number, bbox).
Enter(fn, first, pages, boxes) ==
    /\ pc = "call" /\ entry = fn
    /\ \E p \in pages, b \in boxes : args' = Request(p, b)
    /\ pc' = first
    /\ UNCHANGED <<pdf, entry, handles, text_part, image_part, table_part,
                   result, raised>>

CallMetadata == Enter("extract_bbox_metadata", "text_open", PageNumbers, SheetBoxes)

CallText ==
    Enter("extract_bbox_text_metadata", "text_open", {0, 1},
          {FullSheet, <<0, 0, 6000, 1200>>, <<100, 100, 100, 900>>})

CallImage == Enter("extract_bbox_image_metadata", "image_open", {-1, 0, 1}, ImageBoxes)

CallTable == Enter("extract_bbox_table_signal", "table_open", {0, 1}, SheetBoxes)

\* with pdfplumber.open(pdf_path) as pdf:
Open(at, body) ==
    /\ pc = at
    /\ handles' = pdfplumber_open(handles)
    /\ pc' = body
    /\ UNCHANGED <<pdf, entry, args, text_part, image_part, table_part,
                   result, raised>>

TextOpen == Open("text_open", "text_body")

ImageOpen == Open("image_open", "image_body")

TableOpen == Open("table_open", "table_body")

\* The block runs to its return or to an exception.
TextBody ==
    /\ pc = "text_body"
    /\ \E fault \in BOOLEAN :
          LET out == text_body(pdf, args.page_number, args.bbox, fault)
          IN  text_part' = out.ret /\ raised' = out.raised
    /\ pc' = "text_exit"
    /\ UNCHANGED <<pdf, entry, args, handles, image_part, table_part, result>>

ImageBody ==
    /\ pc = "image_body"
    /\ \E fault \in BOOLEAN :
          LET out == image_body(pdf, args.page_number, args.bbox, fault)
          IN  image_part' = out.ret /\ raised' = out.raised
    /\ pc' = "image_exit"
    /\ UNCHANGED <<pdf, entry, args, handles, text_part, table_part, result>>

TableBody ==
    /\ pc = "table_body"
    /\ \E fault \in BOOLEAN :
          LET out == table_body(pdf, args.page_number, args.bbox, fault)
          IN  table_part' = out.ret /\ raised' = out.raised
    /\ pc' = "table_exit"
    /\ UNCHANGED <<pdf, entry, args, handles, text_part, image_part, result>>

\* The with block is left: the document is closed; an exception propagates
\* to the caller, a return value goes to the caller of the function, which
\* is extract_bbox_metadata (continuing at next) or the outside caller.
Exit(at, fn, part, next) ==
    /\ pc = at
    /\ handles' = pdf_exit(handles, raised)
    /\ IF raised /= "none"
       THEN pc' = "failed" /\ result' = result
       ELSE IF entry = fn
            THEN pc' = "done" /\ result' = part
            ELSE pc' = next /\ result' = result
    /\ UNCHANGED <<pdf, entry, args, text_part, image_part, table_part, raised>>

TextExit == Exit("text_exit", "extract_bbox_text_metadata", text_part, "image_open")

ImageExit == Exit("image_exit", "extract_bbox_image_metadata", image_part, "table_open")

TableExit == Exit("table_exit", "extract_bbox_table_signal", table_part, "return")

\* extract_bbox_metadata returns the report.
ReturnReport ==
    /\ pc = "return"
    /\ result' = report(args.pdf_path, args.page_number,
                        text_part, image_part, table_part)
    /\ pc' = "done"
    /\ UNCHANGED <<pdf, entry, args, handles, text_part, image_part,
                   table_part, raised>>

-----------------------------------------------------------------------------
(* Specifications: one per function a caller can call *)

Next ==
    \/ CallMetadata
    \/ TextOpen \/ TextBody \/ TextExit
    \/ ImageOpen \/ ImageBody \/ ImageExit
    \/ TableOpen \/ TableBody \/ TableExit
    \/ ReturnReport

Spec == Init /\ [][Next]_vars

SpecClamp == InitClamp /\ [][CallClamp]_vars

SpecOverlap == InitOverlap /\ [][CallOverlap]_vars

NextText == CallText \/ TextOpen \/ TextBody \/ TextExit

SpecText == InitText /\ [][NextText]_vars

NextImage == CallImage \/ ImageOpen \/ ImageBody \/ ImageExit

SpecImage == InitImage /\ [][NextImage]_vars

NextTable == CallTable \/ TableOpen \/ TableBody \/ TableExit

SpecTable == InitTable /\ [][NextTable]_vars

-----------------------------------------------------------------------------
(* Properties *)

Returned(fn) == entry = fn /\ pc = "done"

Abs(n) == IF n < 0 THEN -n ELSE n

Range(f) == {f[i] : i \in DOMAIN f}

\* The page a finished call worked on, and the words of its cropped region.
RequestPage == ListGet(pdf, args.page_number)

CroppedWords == extract_words(RequestPage, result.bbox)

\* The orders in which some of n words can stand on a line.
Arrangements(n) ==
    {s \in UNION {[1..k -> 1..n] : k \in 1..n} :
        \A i, j \in DOMAIN s : i /= j => s[i] /= s[j]}

\* The words a line's text is made of, as indices into ws, in the order of
\* the text (the texts of the words of a page are distinct and blank-free).
RowsOfLine(line, ws) ==
    {s \in Arrangements(Len(ws)) :
        Join([i \in DOMAIN s |-> ws[s[i]].text]) = line.text}

SameLine(i, j, lines, ws) ==
    \E k \in DOMAIN lines : \E s \in RowsOfLine(lines[k], ws) :
        i \in Range(s) /\ j \in Range(s)

LineTexts(lines) == [k \in DOMAIN lines |-> lines[k].text]

\* C1: for every bbox of arbitrary integers (negative, beyond the page,
\* corners in the wrong order) and every page with positive sides,
\* clamp_bbox_to_page returns without failing a rectangle with
\* 0 <= x0 <= x1 <= width and 0 <= top <= bottom <= height.
C1_ClampWithinPage ==
    Returned("clamp_bbox_to_page") =>
        /\ raised = "none"
        /\ 0 <= result[1] /\ result[1] <= result[3]
        /\ result[3] <= args.page.width
        /\ 0 <= result[2] /\ result[2] <= result[4]
        /\ result[4] <= args.page.height

\* A box beyond the page with both corner pairs in the wrong order has
\* been clamped.
C1_Witness ==
    /\ Returned("clamp_bbox_to_page")
    /\ args.bbox[1] > args.page.width /\ args.bbox[3] < 0
    /\ args.bbox[4] < args.bbox[2]
    /\ result = <<0, args.bbox[4], args.page.width, args.bbox[2]>>

\* The intersection of two rectangles with integer corners has positive
\* width and height iff some unit cell lies in both.
ShareCell(a, b) ==
    \E x \in 0..(MaxCoord - 1), y \in 0..(MaxCoord - 1) :
        /\ a[1] <= x /\ x + 1 <= a[3] /\ a[2] <= y /\ y + 1 <= a[4]
        /\ b[1] <= x /\ x + 1 <= b[3] /\ b[2] <= y /\ y + 1 <= b[4]

\* C3: bbox_overlap(a, b) is true exactly when the intersection of a and b
\* has strictly positive width and height; rectangles sharing only an edge
\* or a corner give false; the answer is the same in either argument order.
C3_OverlapIsPositiveArea ==
    Returned("bbox_overlap") =>
        /\ result = ShareCell(args.a, args.b)
        /\ result = bbox_overlap(args.b, args.a)
        /\ (\/ args.a[3] = args.b[1] \/ args.b[3] = args.a[1]
            \/ args.a[4] = args.b[2] \/ args.b[4] = args.a[2]) => result = FALSE

\* Two unit-wide squares side by side, sharing an edge, do not overlap.
C3_Witness ==
    /\ Returned("bbox_overlap")
    /\ args.a = <<0, 0, 1, 1>> /\ args.b = <<1, 0, 2, 1>>
    /\ result = FALSE

\* C4: the images extract_bbox_image_metadata returns are exactly the page
\* images that overlap the normalized bbox, in page order, each with
\* image_id equal to its 0-based position in the full page image list.
C4_ImagesKeepPagePositions ==
    Returned("extract_bbox_image_metadata") =>
        LET images == RequestPage.images
            box == clamp_bbox_to_page(args.bbox, RequestPage)
            Rect(i) == <<images[i].x0, images[i].top, images[i].x1, images[i].bottom>>
            out == result.images
        IN  /\ result.bbox = box
            /\ \A k \in DOMAIN out :
                  /\ out[k].image_id \in 0..(Len(images) - 1)
                  /\ out[k].image_bbox = Rect(out[k].image_id + 1)
                  /\ out[k].name = images[out[k].image_id + 1].name
                  /\ bbox_overlap(box, out[k].image_bbox)
            /\ \A k \in 1..(Len(out) - 1) : out[k].image_id < out[k + 1].image_id
            /\ \A i \in DOMAIN images :
                  bbox_overlap(box, Rect(i)) =>
                      \E k \in DOMAIN out : out[k].image_id = i - 1

\* Only the second image of the page lies in the box: it is returned with
\* image_id 1.
C4_Witness ==
    /\ Returned("extract_bbox_image_metadata")
    /\ Len(RequestPage.images) = 2
    /\ Len(result.images) = 1
    /\ result.images[1].image_id = 1

\* C5: a page index outside 0..pageCount-1 makes extract_bbox_metadata fail:
\* no report is returned for it.
C5_InvalidPageFails ==
    Returned("extract_bbox_metadata") =>
        args.page_number \in 0..(Len(pdf) - 1)

\* C6: likely_table is true exactly when lines_count + rects_count is
\* greater than 15, whatever curves_count is.
C6_LikelyTableThreshold ==
    Returned("extract_bbox_table_signal") =>
        /\ result.lines_count = RequestPage.lines
        /\ result.rects_count = RequestPage.rects
        /\ result.curves_count = RequestPage.curves
        /\ result.likely_table = (result.lines_count + result.rects_count > 15)
        /\ \A c \in 0..MaxCurves :
              table_signal(0, result.bbox, RequestPage.lines, RequestPage.rects,
                           c).likely_table = result.likely_table

\* 10 lines and 6 rectangles make a likely table.
C6_Witness ==
    /\ Returned("extract_bbox_table_signal")
    /\ result.lines_count = 10 /\ result.rects_count = 6
    /\ result.curves_count = 0
    /\ result.likely_table = TRUE

\* C7: every report extract_bbox_metadata returns has
\* text_line_count = length of text and image_count = length of images.
C7_CountsMatchSequences ==
    Returned("extract_bbox_metadata") =>
        /\ result.text_line_count = Len(result.text)
        /\ result.image_count = Len(result.images)

\* A report was returned for a region with no text and no images.
C7_Witness ==
    /\ Returned("extract_bbox_metadata")
    /\ result.text = <<>> /\ result.images = <<>>
    /\ result.text_line_count = 0 /\ result.image_count = 0

\* C8: no document handle stays open once a sub-analysis has ended, and so
\* none once the request has ended, returned or failed.
C8_HandlesReleased ==
    /\ handles \in {0, 1}
    /\ pc \in {"call", "image_open", "table_open", "return", "done", "failed"}
          => handles = 0

\* The table step failed after the text and image steps had returned, and
\* the handle is closed.
C8_Witness ==
    /\ entry = "extract_bbox_metadata" /\ pc = "failed"
    /\ raised = "PDFSyntaxError"
    /\ text_part /= None /\ image_part /= None
    /\ handles = 0

\* The line grouping scenario was requested over the whole sheet.
ScenarioReturned ==
    /\ Returned("extract_bbox_text_metadata")
    /\ RequestPage.words = ScenarioWords
    /\ CroppedWords = ScenarioWords

\* The integer nearest to a coordinate counted in tenths, the even one of
\* the two when both are equally near.
NearestInteger(t) ==
    CHOOSE k \in (t \div 10)..(t \div 10 + 1) :
        \/ Abs(10 * k - t) < 5
        \/ Abs(10 * k - t) = 5 /\ k % 2 = 0

\* C2 as stated: any two words of the cropped region whose tops differ by
\* less than 0.5 are merged into one line; the scenario words give the two
\* lines "Hello World" and "Next".
C2_CloseTopsMerge ==
    Returned("extract_bbox_text_metadata") =>
        /\ \A i, j \in DOMAIN CroppedWords :
              Abs(CroppedWords[i].top - CroppedWords[j].top) < 5 =>
                  SameLine(i, j, result.lines, CroppedWords)
        /\ ScenarioReturned =>
              LineTexts(result.lines) = <<"Hello World", "Next">>

\* C2 amended: any two words of the cropped region whose tops round to the
\* same integer (a half to the even neighbour) are merged into one line;
\* the scenario words give the three lines "Hello", "World" and "Next".
C2_SameRoundedTopMerge ==
    Returned("extract_bbox_text_metadata") =>
        /\ \A i, j \in DOMAIN CroppedWords :
              NearestInteger(CroppedWords[i].top)
                  = NearestInteger(CroppedWords[j].top) =>
                      SameLine(i, j, result.lines, CroppedWords)
        /\ ScenarioReturned =>
              LineTexts(result.lines) = <<"Hello", "World", "Next">>

\* The scenario ran: Hello (100.2) and World (100.6) are 0.4 apart and
\* stand on different lines.
C2_Witness ==
    /\ ScenarioReturned
    /\ Len(result.lines) = 3
    /\ ~SameLine(1, 2, result.lines, CroppedWords)

\* C9 as stated: two words of the cropped region whose tops differ by 1 or
\* more never stand on the same line.
C9_GapOfOneSplits ==
    Returned("extract_bbox_text_metadata") =>
        \A i, j \in DOMAIN CroppedWords :
            Abs(CroppedWords[i].top - CroppedWords[j].top) >= 10 =>
                ~SameLine(i, j, result.lines, CroppedWords)

\* C9 amended: two words of the cropped region whose tops differ by more
\* than 1 never stand on the same line.
C9_GapAboveOneSplits ==
    Returned("extract_bbox_text_metadata") =>
        \A i, j \in DOMAIN CroppedWords :
            Abs(CroppedWords[i].top - CroppedWords[j].top) > 10 =>
                ~SameLine(i, j, result.lines, CroppedWords)

\* Two words 1.3 apart (100.2 and 101.5) came out as two lines.
C9_Witness ==
    /\ Returned("extract_bbox_text_metadata")
    /\ Len(CroppedWords) = 2
    /\ CroppedWords[1].top = 1002 /\ CroppedWords[2].top = 1015
    /\ Len(result.lines) = 2

\* v is a most frequent value of xs and, of the most frequent values, the
\* one that occurs first.
FirstModal(v, xs) ==
    LET Count(u) == Cardinality({i \in DOMAIN xs : xs[i] = u})
        First(u) == CHOOSE i \in DOMAIN xs :
                        xs[i] = u /\ \A j \in 1..(i - 1) : xs[j] /= u
    IN  /\ v \in Range(xs)
        /\ \A u \in Range(xs) :
              /\ Count(u) <= Count(v)
              /\ (Count(u) = Count(v) /\ u /= v) => First(v) < First(u)

=============================================================================
